---- MODULE Spec2Model ----
(***************************************************************************)
(* The Telegram bridge of telegram-bridge/main.go as a state machine.      *)
(*                                                                         *)
(* The program is one linear script: main() validates config.ini, creates  *)
(* the store directory and the client, and hands client.Run a callback     *)
(* that checks the auth status, shows a QR code and polls until the        *)
(* account is authorized, exports the session with exportSession, asks for *)
(* the account (client.Self) and then blocks on ctx.Done().                *)
(*                                                                         *)
(* pc is main's position.  The environment (the user who logs in, the      *)
(* network, the cancellation of the run context, the client library's      *)
(* session storage, the outcome of file system calls) is modelled by       *)
(* separate actions and by the inputs the program steps draw with \E.      *)
(***************************************************************************)
EXTENDS Integers, Sequences, FiniteSets, TLC

VARIABLES
    pc,             \* main's position (see the actions below)
    cfgLoadable,    \* whether ini.Load("telegram-bridge/config.ini") succeeds
    apiIDStr,       \* [telegram] api_id, a string (a sequence of characters)
    apiHash,        \* [telegram] api_hash
    apiID,          \* var apiID int, set by fmt.Sscan
    storeDir,       \* whether os.MkdirAll created/kept the store directory
    clientCreated,  \* whether telegram.NewClient was called
    clientRan,      \* whether client.Run was called
    authorized,     \* server side: is this client's key logged in to an account
    netOk,          \* whether requests to the server currently go through
    cancelled,      \* whether the run context ctx is done
    sessionFile,    \* content of store/telegram.session
    persisted,      \* the session the client library last persisted (NoSession: none)
    shared,         \* content of store/shared_session.json
    qrImage,        \* whether store/qrcode.png was written
    qrShown,        \* whether the terminal QR code was printed
    initStatus,     \* outcome of the first client.Auth().Status: none/err/unauth/auth
    lastStatus,     \* outcome of the most recent client.Auth().Status
    lastExport,     \* outcome of exportSession: none/ok/read_err/parse_err/write_err
    exportCalls,    \* number of calls of exportSession
    exportSite,     \* the call that was made: none / login (line 118) / already (line 124)
    qrFileTries,    \* number of calls of qrcode.WriteFile
    qrTermTries,    \* number of calls of qrcode.New
    sleeps,         \* number of time.Sleep calls of the wait loop (saturating)
    polls           \* number of status checks of the wait loop (saturating)

vars == << pc, cfgLoadable, apiIDStr, apiHash, apiID, storeDir, clientCreated,
           clientRan, authorized, netOk, cancelled, sessionFile, persisted,
           shared, qrImage, qrShown, initStatus, lastStatus, lastExport,
           exportCalls, exportSite, qrFileTries, qrTermTries, sleeps, polls >>

(***************************************************************************)
(* Bounds of the model.                                                    *)
(***************************************************************************)
\* longest api_id string drawn
MaxLen == 2
\* the loop counters sleeps and polls saturate here (the loop itself is unbounded)
MaxPolls == 2

Min(a, b) == IF a < b THEN a ELSE b

(***************************************************************************)
(* Configuration: ini values and fmt.Sscan(apiIDStr, &apiID).              *)
(***************************************************************************)
\* the characters api_id is drawn from: two digits and a letter
Alphabet == {"0", "1", "a"}

Digits == {"0", "1"}

DigitValue(c) == IF c = "1" THEN 1 ELSE 0

Strings == UNION {[1..n -> Alphabet] : n \in 0..MaxLen}

Hashes == {"", "h"}

\* length of the longest prefix of s made of digits
RECURSIVE DigitPrefix(_)
DigitPrefix(s) ==
    IF s = << >> \/ Head(s) \notin Digits THEN 0 ELSE 1 + DigitPrefix(Tail(s))

\* the number the digit string s denotes in the given base
RECURSIVE NumberIn(_, _)
NumberIn(s, base) ==
    IF s = << >> THEN 0
    ELSE NumberIn(SubSeq(s, 1, Len(s) - 1), base) * base + DigitValue(s[Len(s)])

\* fmt.Sscan into an int: it reads the leading number token and stops at the
\* first character that is not part of it; what follows is not an error.  A
\* leading 0 selects base 8.  No digit at the start (or no input) is an error.
Sscan(s) ==
    LET n == DigitPrefix(s)
    IN  IF n = 0 THEN [err |-> TRUE, val |-> 0]
        ELSE [err |-> FALSE,
              val |-> NumberIn(SubSeq(s, 1, n), IF s[1] = "0" THEN 8 ELSE 10)]

(***************************************************************************)
(* Sessions and files.                                                     *)
(***************************************************************************)
\* a session: data-center id, server address, auth key, user id
Sessions == { [dc |-> 2, addr |-> "a1", key |-> "k1", uid |-> 7],
              [dc |-> 4, addr |-> "a2", key |-> "k2", uid |-> 9] }

NoSession == [dc |-> 0, addr |-> "", key |-> "nil", uid |-> 0]

\* a file: absent, bytes that do not unmarshal, or a JSON object
Absent == [kind |-> "absent", obj |-> << >>]

Garbage == [kind |-> "garbage", obj |-> << >>]

Json(o) == [kind |-> "json", obj |-> o]

\* a session file laid out as SessionData's json tags name it
FlatEncode(s) ==
    Json([dc_id |-> s.dc, addr |-> s.addr, auth_key |-> s.key, user_id |-> s.uid])

\* session.FileStorage: the client library stores its session as
\* {"Version": 1, "Data": {"DC": .., "Addr": .., "AuthKey": .., ...}}
LibraryEncode(s) ==
    Json([Version |-> 1, Data |-> [DC |-> s.dc, Addr |-> s.addr, AuthKey |-> s.key]])

\* encoding/json matches an object key to a struct field by its tag, ignoring case
Lower(k) ==
    CASE k = "Version" -> "version"
      [] k = "Data"    -> "data"
      [] OTHER         -> k

\* the member of object o for the field tagged tag, or zero when o has none
Member(o, tag, zero) ==
    IF \E k \in DOMAIN o : Lower(k) = tag
    THEN o[CHOOSE k \in DOMAIN o : Lower(k) = tag]
    ELSE zero

\* json.Unmarshal(sessionFileData, &sessionData): members the struct does not
\* name are skipped, fields the object does not name keep their zero value
Unmarshal(o) ==
    [DC      |-> Member(o, "dc_id", 0),
     Addr    |-> Member(o, "addr", ""),
     AuthKey |-> Member(o, "auth_key", "nil"),
     UserID  |-> Member(o, "user_id", 0)]

\* the ExportedSession built from sessionData, as json.MarshalIndent writes it
Exported(sd) ==
    Json([dc_id |-> sd.DC, addr |-> sd.Addr, auth_key |-> sd.AuthKey,
          user_id |-> sd.UserID])

\* os.WriteFile: it succeeds, or it fails to open the file (nothing changes),
\* or it fails after the file was created/truncated (a partial file is left)
WriteOutcomes == {"ok", "open_fail", "partial"}

WriteFile(old, data, w) ==
    CASE w = "ok"        -> data
      [] w = "open_fail" -> old
      [] OTHER           -> Garbage

\* (mutant) the export file is created/truncated before the session file is read
exportSession_TruncateFirst(sf, old, w) ==
    IF sf.kind = "absent" THEN [res |-> "read_err", out |-> Garbage]
    ELSE IF sf.kind # "json" THEN [res |-> "parse_err", out |-> Garbage]
    ELSE [res |-> IF w = "ok" THEN "ok" ELSE "write_err",
          out |-> WriteFile(Garbage, Exported(Unmarshal(sf.obj)), w)]

\* exportSession(sessionFilePath, exportPath): the outcome and the export file
exportSession(sf, old, w) ==
    IF sf.kind = "absent" THEN [res |-> "read_err", out |-> old]
    ELSE IF sf.kind # "json" THEN [res |-> "parse_err", out |-> old]
    ELSE [res |-> IF w = "ok" THEN "ok" ELSE "write_err",
          out |-> WriteFile(old, Exported(Unmarshal(sf.obj)), w)]

\* client.Auth().Status(ctx)
AuthStatus ==
    IF cancelled \/ ~netOk THEN "err"
    ELSE IF authorized THEN "auth" ELSE "unauth"

\* client.Self(ctx) succeeds
SelfOk == ~cancelled /\ netOk /\ authorized

(***************************************************************************)
(* Initial states.                                                         *)
(***************************************************************************)
Init ==
    /\ pc = "load_config"
    /\ cfgLoadable \in BOOLEAN
    /\ apiIDStr \in Strings
    /\ apiHash \in Hashes
    /\ apiID = 0
    /\ storeDir = FALSE
    /\ clientCreated = FALSE
    /\ clientRan = FALSE
    /\ authorized \in BOOLEAN
    /\ netOk = TRUE
    /\ cancelled = FALSE
    /\ \E s \in Sessions \cup {NoSession} :
          /\ persisted = s
          /\ sessionFile \in IF s = NoSession
                             THEN {Absent, Garbage} \cup {FlatEncode(t) : t \in Sessions}
                             ELSE {LibraryEncode(s)}
    /\ shared \in {Absent} \cup {Exported(Unmarshal(FlatEncode(s).obj)) : s \in Sessions}
    /\ qrImage = FALSE
    /\ qrShown = FALSE
    /\ initStatus = "none"
    /\ lastStatus = "none"
    /\ lastExport = "none"
    /\ exportCalls = 0
    /\ exportSite = "none"
    /\ qrFileTries = 0
    /\ qrTermTries = 0
    /\ sleeps = 0
    /\ polls = 0

qrVars == << qrImage, qrShown >>
cfgVars == << cfgLoadable, apiIDStr, apiHash >>
envVars == << authorized, netOk, cancelled, sessionFile, persisted >>
histVars == << initStatus, lastStatus, lastExport, exportCalls, exportSite,
               qrFileTries, qrTermTries, sleeps, polls >>

(***************************************************************************)
(* main, before client.Run.                                                *)
(***************************************************************************)
\* ini.Load (lines 38-41)
LoadConfig ==
    /\ pc = "load_config"
    /\ pc' = IF cfgLoadable THEN "scan_id" ELSE "fatal_config"
    /\ UNCHANGED << cfgVars, apiID, storeDir, clientCreated, clientRan, envVars,
                    shared, qrVars, histVars >>

\* fmt.Sscan(apiIDStr, &apiID) (lines 46-50)
ScanApiID ==
    /\ pc = "scan_id"
    /\ LET r == Sscan(apiIDStr)
       IN  /\ apiID' = r.val
           /\ pc' = IF r.err THEN "fatal_config" ELSE "check_config"
    /\ UNCHANGED << cfgVars, storeDir, clientCreated, clientRan, envVars,
                    shared, qrVars, histVars >>

\* (mutant) only the hash is checked
CheckConfig_HashOnly ==
    /\ pc = "check_config"
    /\ pc' = IF apiHash = "" THEN "fatal_config" ELSE "mkdir"
    /\ UNCHANGED << cfgVars, apiID, storeDir, clientCreated, clientRan, envVars,
                    shared, qrVars, histVars >>

\* if apiHash == "" || apiID == 0 (lines 52-54)
CheckConfig ==
    /\ pc = "check_config"
    /\ pc' = IF apiHash = "" \/ apiID = 0 THEN "fatal_config" ELSE "mkdir"
    /\ UNCHANGED << cfgVars, apiID, storeDir, clientCreated, clientRan, envVars,
                    shared, qrVars, histVars >>

\* os.MkdirAll(sessionDir, 0700) (lines 57-60)
MakeStoreDir ==
    /\ pc = "mkdir"
    /\ \E ok \in BOOLEAN :
          /\ storeDir' = ok
          /\ pc' = IF ok THEN "new_client" ELSE "fatal_mkdir"
    /\ UNCHANGED << cfgVars, apiID, clientCreated, clientRan, envVars,
                    shared, qrVars, histVars >>

\* telegram.NewClient (lines 61-70)
NewClient ==
    /\ pc = "new_client"
    /\ clientCreated' = TRUE
    /\ pc' = "run"
    /\ UNCHANGED << cfgVars, apiID, storeDir, clientRan, envVars,
                    shared, qrVars, histVars >>

\* client.Run(context.Background(), func...) (line 73): the library connects
\* and calls the callback, or gives up and returns an error
RunClient ==
    /\ pc = "run"
    /\ clientRan' = TRUE
    /\ \/ pc' = "status0"
       \/ ~netOk /\ pc' = "fatal_run"
    /\ UNCHANGED << cfgVars, apiID, storeDir, clientCreated, envVars,
                    shared, qrVars, histVars >>

(***************************************************************************)
(* The callback of client.Run.                                             *)
(***************************************************************************)
Bump(n) == Min(n + 1, MaxPolls)

\* (mutant) the error of the first status check is only logged
InitialStatus_IgnoreError ==
    /\ pc = "status0"
    /\ initStatus' = AuthStatus
    /\ lastStatus' = AuthStatus
    /\ pc' = IF AuthStatus = "unauth" THEN "qr_file" ELSE "export_already"
    /\ UNCHANGED << cfgVars, apiID, storeDir, clientCreated, clientRan, envVars,
                    shared, qrVars, lastExport, exportCalls, exportSite,
                    qrFileTries, qrTermTries, sleeps, polls >>

\* status, err := client.Auth().Status(ctx) (lines 76-81, 121-122)
InitialStatus ==
    /\ pc = "status0"
    /\ initStatus' = AuthStatus
    /\ lastStatus' = AuthStatus
    /\ pc' = CASE AuthStatus = "err"    -> "fatal_run"
               [] AuthStatus = "unauth" -> "qr_file"
               [] OTHER                 -> "export_already"
    /\ UNCHANGED << cfgVars, apiID, storeDir, clientCreated, clientRan, envVars,
                    shared, qrVars, lastExport, exportCalls, exportSite,
                    qrFileTries, qrTermTries, sleeps, polls >>

\* (mutant) a QR image that cannot be written ends the callback with the error
WriteQRFile_AbortOnFailure ==
    /\ pc = "qr_file"
    /\ \E ok \in BOOLEAN :
          /\ qrImage' = (qrImage \/ ok)
          /\ pc' = IF ok THEN "qr_term" ELSE "fatal_run"
    /\ qrFileTries' = qrFileTries + 1
    /\ UNCHANGED << cfgVars, apiID, storeDir, clientCreated, clientRan, envVars,
                    shared, qrShown, initStatus, lastStatus, lastExport,
                    exportCalls, exportSite, qrTermTries, sleeps, polls >>

\* qrcode.WriteFile(loginURL, qrcode.Medium, 256, "store/qrcode.png"): its
\* error is logged (lines 85-91)
WriteQRFile ==
    /\ pc = "qr_file"
    /\ \E ok \in BOOLEAN : qrImage' = (qrImage \/ ok)
    /\ qrFileTries' = qrFileTries + 1
    /\ pc' = "qr_term"
    /\ UNCHANGED << cfgVars, apiID, storeDir, clientCreated, clientRan, envVars,
                    shared, qrShown, initStatus, lastStatus, lastExport,
                    exportCalls, exportSite, qrTermTries, sleeps, polls >>

\* qrcode.New(loginURL, qrcode.Medium), printed when it succeeds, then the
\* "Waiting for authorization" line (lines 93-100)
ShowTerminalQR ==
    /\ pc = "qr_term"
    /\ \E ok \in BOOLEAN : qrShown' = ok
    /\ qrTermTries' = qrTermTries + 1
    /\ pc' = "sleep"
    /\ UNCHANGED << cfgVars, apiID, storeDir, clientCreated, clientRan, envVars,
                    shared, qrImage, initStatus, lastStatus, lastExport,
                    exportCalls, exportSite, qrFileTries, sleeps, polls >>

\* time.Sleep(3 * time.Second) (line 103)
Sleep ==
    /\ pc = "sleep"
    /\ sleeps' = Bump(sleeps)
    /\ pc' = "poll"
    /\ UNCHANGED << cfgVars, apiID, storeDir, clientCreated, clientRan, envVars,
                    shared, qrVars, initStatus, lastStatus, lastExport,
                    exportCalls, exportSite, qrFileTries, qrTermTries, polls >>

\* (mutant) a failed status check leaves the loop like an authorized one
PollStatus_BreakOnError ==
    /\ pc = "poll"
    /\ lastStatus' = AuthStatus
    /\ polls' = Bump(polls)
    /\ pc' = IF AuthStatus = "unauth" THEN "sleep" ELSE "export_login"
    /\ UNCHANGED << cfgVars, apiID, storeDir, clientCreated, clientRan, envVars,
                    shared, qrVars, initStatus, lastExport, exportCalls,
                    exportSite, qrFileTries, qrTermTries, sleeps >>

\* (mutant) the loop is left without the export that follows it
PollStatus_SkipExport ==
    /\ pc = "poll"
    /\ lastStatus' = AuthStatus
    /\ polls' = Bump(polls)
    /\ pc' = IF AuthStatus = "auth" THEN "self" ELSE "sleep"
    /\ UNCHANGED << cfgVars, apiID, storeDir, clientCreated, clientRan, envVars,
                    shared, qrVars, initStatus, lastExport, exportCalls,
                    exportSite, qrFileTries, qrTermTries, sleeps >>

\* (mutant) the break is missing: an authorized status goes round as well
PollStatus_NoBreak ==
    /\ pc = "poll"
    /\ lastStatus' = AuthStatus
    /\ polls' = Bump(polls)
    /\ pc' = "sleep"
    /\ UNCHANGED << cfgVars, apiID, storeDir, clientCreated, clientRan, envVars,
                    shared, qrVars, initStatus, lastExport, exportCalls,
                    exportSite, qrFileTries, qrTermTries, sleeps >>

\* (mutant) the loop returns ctx.Err() once the context is done
PollStatus_ReturnOnCancel ==
    /\ pc = "poll"
    /\ lastStatus' = AuthStatus
    /\ polls' = Bump(polls)
    /\ pc' = IF cancelled THEN "fatal_run"
             ELSE IF AuthStatus = "auth" THEN "export_login" ELSE "sleep"
    /\ UNCHANGED << cfgVars, apiID, storeDir, clientCreated, clientRan, envVars,
                    shared, qrVars, initStatus, lastExport, exportCalls,
                    exportSite, qrFileTries, qrTermTries, sleeps >>

\* status, err := client.Auth().Status(ctx) in the loop: continue on an error,
\* break when authorized, else go round (lines 101-115)
PollStatus ==
    /\ pc = "poll"
    /\ lastStatus' = AuthStatus
    /\ polls' = Bump(polls)
    /\ pc' = IF AuthStatus = "auth" THEN "export_login" ELSE "sleep"
    /\ UNCHANGED << cfgVars, apiID, storeDir, clientCreated, clientRan, envVars,
                    shared, qrVars, initStatus, lastExport, exportCalls,
                    exportSite, qrFileTries, qrTermTries, sleeps >>

\* (mutant) the callback returns the export's error
ExportAt_ReturnError(site) ==
    /\ pc = IF site = "login" THEN "export_login" ELSE "export_already"
    /\ \E w \in WriteOutcomes :
          LET r == exportSession(sessionFile, shared, w)
          IN  /\ shared' = r.out
              /\ lastExport' = r.res
              /\ pc' = IF r.res = "ok" THEN "self" ELSE "fatal_run"
    /\ exportCalls' = exportCalls + 1
    /\ exportSite' = site
    /\ UNCHANGED << cfgVars, apiID, storeDir, clientCreated, clientRan, envVars,
                    qrVars, initStatus, lastStatus, qrFileTries, qrTermTries,
                    sleeps, polls >>

\* if err := exportSession(sessionFilePath, sharedSessionPath); err != nil
\* { log.Printf(...) } at either call (lines 117-120 and 123-126)
ExportAt(site) ==
    /\ pc = IF site = "login" THEN "export_login" ELSE "export_already"
    /\ \E w \in WriteOutcomes :
          LET r == exportSession(sessionFile, shared, w)
          IN  /\ shared' = r.out
              /\ lastExport' = r.res
    /\ exportCalls' = exportCalls + 1
    /\ exportSite' = site
    /\ pc' = "self"
    /\ UNCHANGED << cfgVars, apiID, storeDir, clientCreated, clientRan, envVars,
                    qrVars, initStatus, lastStatus, qrFileTries, qrTermTries,
                    sleeps, polls >>

ExportAfterLogin == ExportAt("login")

ExportAlreadyAuthorized == ExportAt("already")

\* self, err := client.Self(ctx) (lines 129-135)
Self ==
    /\ pc = "self"
    /\ pc' = IF SelfOk THEN "running" ELSE "fatal_run"
    /\ UNCHANGED << cfgVars, apiID, storeDir, clientCreated, clientRan, envVars,
                    shared, qrVars, histVars >>

\* <-ctx.Done(); return ctx.Err() (lines 136-144): client.Run returns the
\* callback's error or, filtering the cancellation, nil
Shutdown ==
    /\ pc = "running"
    /\ cancelled
    /\ \/ pc' = "stopped"
       \/ pc' = "fatal_run"
    /\ UNCHANGED << cfgVars, apiID, storeDir, clientCreated, clientRan, envVars,
                    shared, qrVars, histVars >>

(***************************************************************************)
(* The environment while client.Run is in progress.                        *)
(***************************************************************************)
InRun == pc \in {"status0", "qr_file", "qr_term", "sleep", "poll",
                 "export_login", "export_already", "self", "running"}

WaitLoop == {"sleep", "poll"}

\* the user completes the login of this client
UserAuthorizes ==
    /\ InRun
    /\ ~authorized
    /\ authorized' = TRUE
    /\ UNCHANGED << pc, cfgVars, apiID, storeDir, clientCreated, clientRan,
                    netOk, cancelled, sessionFile, persisted, shared, qrVars,
                    histVars >>

\* the connection to the server drops or comes back
NetworkFlap ==
    /\ pc = "run" \/ InRun
    /\ netOk' = ~netOk
    /\ UNCHANGED << pc, cfgVars, apiID, storeDir, clientCreated, clientRan,
                    authorized, cancelled, sessionFile, persisted, shared,
                    qrVars, histVars >>

\* the run context is cancelled (the client stops)
CancelContext ==
    /\ InRun
    /\ ~cancelled
    /\ cancelled' = TRUE
    /\ UNCHANGED << pc, cfgVars, apiID, storeDir, clientCreated, clientRan,
                    authorized, netOk, sessionFile, persisted, shared, qrVars,
                    histVars >>

\* session.FileStorage.StoreSession: the client persists its session
LibrarySavesSession ==
    /\ InRun
    /\ \E s \in Sessions :
          /\ persisted = NoSession \/ persisted = s
          /\ persisted' = s
          /\ sessionFile' = LibraryEncode(s)
    /\ UNCHANGED << pc, cfgVars, apiID, storeDir, clientCreated, clientRan,
                    authorized, netOk, cancelled, shared, qrVars, histVars >>

Program ==
    \/ LoadConfig
    \/ ScanApiID
    \/ CheckConfig
    \/ MakeStoreDir
    \/ NewClient
    \/ RunClient
    \/ InitialStatus
    \/ WriteQRFile
    \/ ShowTerminalQR
    \/ Sleep
    \/ PollStatus
    \/ ExportAfterLogin
    \/ ExportAlreadyAuthorized
    \/ Self
    \/ Shutdown

Environment ==
    \/ UserAuthorizes
    \/ NetworkFlap
    \/ CancelContext
    \/ LibrarySavesSession

Next == Program \/ Environment

Spec == Init /\ [][Next]_vars

\* the goroutine running main keeps being scheduled: a step of the program that
\* stays possible is eventually taken; the environment owes nothing
LiveSpec == Spec /\ WF_vars(Program)

(***************************************************************************)
(* Properties.                                                             *)
(***************************************************************************)
ExportPcs == {"export_login", "export_already"}

\* the four credentials of session s as the shared session file should hold them
CredentialsOf(s) ==
    Json([dc_id |-> s.dc, addr |-> s.addr, auth_key |-> s.key, user_id |-> s.uid])

\* a step that is a call of exportSession
ExportStep == exportCalls' # exportCalls

\* C1: when exportSession succeeds on a session file the client library
\* persisted, the shared session file holds that session's data-center id,
\* server address, authentication key and user id.
C1_ExportHoldsPersistedSession ==
    [][(ExportStep /\ lastExport' = "ok" /\ persisted # NoSession)
          => shared' = CredentialsOf(persisted)]_vars

\* C2: exportSession is called only when the last status check succeeded and
\* reported Authorized; it is not called while the last observed status is
\* unauthorized, nor on a run whose first status check returned an error.
C2_ExportOnlyAfterAuthorized ==
    /\ (pc \in ExportPcs \/ exportCalls > 0) => lastStatus = "auth"
    /\ initStatus = "err" => (exportCalls = 0 /\ pc \notin ExportPcs)
    /\ lastStatus \in {"none", "err", "unauth"} => exportCalls = 0

C2_Witness ==
    exportCalls = 1 /\ initStatus = "unauth" /\ lastStatus = "auth"

\* C3: the export is attempted on both branches and exactly once per run: an
\* initially authorized run calls it once without waiting, an initially
\* unauthorized run calls it once after the wait loop; never twice.
C3_ExportOncePerRun ==
    /\ exportCalls <= 1
    /\ pc \in {"self", "running", "stopped"} => exportCalls = 1
    /\ pc = "export_already" =>
          (initStatus = "auth" /\ exportCalls = 0 /\ sleeps = 0 /\ polls = 0)
    /\ pc = "export_login" =>
          (initStatus = "unauth" /\ exportCalls = 0 /\ sleeps >= 1 /\ polls >= 1)
    /\ (exportCalls = 1 /\ initStatus = "auth") =>
          (exportSite = "already" /\ sleeps = 0 /\ polls = 0)
    /\ (exportCalls = 1 /\ initStatus = "unauth") =>
          (exportSite = "login" /\ polls >= 1 /\ lastStatus = "auth")
    /\ exportCalls = 1 => initStatus \in {"auth", "unauth"}

C3_Witness ==
    pc = "self" /\ exportCalls = 1 /\ exportSite = "login" /\ initStatus = "unauth"

\* the configuration that main rejects
ConfigInvalid ==
    \/ ~cfgLoadable
    \/ Sscan(apiIDStr).err
    \/ Sscan(apiIDStr).val = 0
    \/ apiHash = ""

C5_QROnlyWhenUnauthorized ==
    /\ qrFileTries <= 1 /\ qrTermTries <= 1
    /\ initStatus # "unauth" =>
          (qrFileTries = 0 /\ qrTermTries = 0 /\ ~qrImage /\ ~qrShown
             /\ sleeps = 0 /\ polls = 0)
    /\ pc = "qr_file" =>
          (initStatus = "unauth" /\ qrFileTries = 0 /\ qrTermTries = 0
             /\ sleeps = 0 /\ polls = 0)
    /\ pc = "qr_term" =>
          (qrFileTries = 1 /\ qrTermTries = 0 /\ sleeps = 0 /\ polls = 0)
    /\ (initStatus = "unauth" /\ pc \notin {"qr_file", "qr_term"}) =>
          (qrFileTries = 1 /\ qrTermTries = 1)
    /\ (sleeps >= 1 \/ polls >= 1) => (qrFileTries = 1 /\ qrTermTries = 1)

C5_Witness ==
    pc = "poll" /\ qrFileTries = 1 /\ qrTermTries = 1 /\ ~qrImage /\ ~qrShown

\* C6: the wait loop sleeps, then checks the status; an error or an
\* unauthorized result leads back to the sleep, and the loop is left only by
\* a check that succeeds and reports Authorized.
C6_LoopLeftOnlyWhenAuthorized ==
    /\ [][(pc \in WaitLoop /\ pc' \notin WaitLoop) =>
             (pc = "poll" /\ AuthStatus = "auth" /\ lastStatus' = "auth"
                /\ pc' = "export_login")]_vars
    /\ [][(pc = "poll" /\ pc' # "poll" /\ AuthStatus # "auth") => pc' = "sleep"]_vars
    /\ [][(pc = "sleep" /\ pc' # "sleep") => (pc' = "poll" /\ sleeps' >= 1)]_vars
    /\ [][(pc' = "poll" /\ pc # "poll") => pc = "sleep"]_vars

C6_Witness ==
    pc = "poll" /\ lastStatus = "err" /\ polls >= 2 /\ initStatus = "unauth"

\* from here on status checks succeed and report Authorized
LoggedIn == authorized /\ netOk /\ ~cancelled

\* C7: on a run that starts unauthorized, if from some point on status checks
\* succeed and report Authorized, the wait loop ends, exportSession is called
\* and, unless client.Self fails, the program reaches the running state.
C7_LoginEventuallyExports ==
    (<>[]LoggedIn) =>
        [](pc \in WaitLoop =>
              <>(exportCalls = 1 /\ pc \in {"running", "fatal_run"}))

C7_Witness ==
    pc = "running" /\ initStatus = "unauth" /\ exportCalls = 1 /\ polls >= 2

\* C8: a failed export is not fatal: whatever exportSession returns, the
\* callback goes on to client.Self, and what follows depends on client.Self
\* alone.
C8_ExportFailureNotFatal ==
    /\ [][ExportStep => pc' = "self"]_vars
    /\ [][(pc = "self" /\ pc' # "self") =>
             (pc' = IF SelfOk THEN "running" ELSE "fatal_run")]_vars
    /\ [][(pc = "running" /\ pc' # "running") => cancelled]_vars

C8_Witness ==
    pc = "running" /\ lastExport \in {"read_err", "parse_err", "write_err"}

\* C9 as stated: the shared session file changes only when exportSession
\* succeeds, and exportSession never changes the session file.
C9_SharedChangesOnlyOnSuccess ==
    /\ [][shared' # shared => (ExportStep /\ lastExport' = "ok")]_vars
    /\ [][ExportStep => sessionFile' = sessionFile]_vars

\* C9 as amended: when reading or parsing the session file fails the shared
\* session file is left as it was; it changes only in a call that got as far
\* as os.WriteFile (which, failing, may leave it truncated); the session file
\* is never changed by exportSession.
C9_SharedKeptOnReadOrParseFailure ==
    /\ [][(ExportStep /\ lastExport' \in {"read_err", "parse_err"})
             => shared' = shared]_vars
    /\ [][shared' # shared =>
             (ExportStep /\ lastExport' \in {"ok", "write_err"})]_vars
    /\ [][ExportStep => sessionFile' = sessionFile]_vars

C9_Witness ==
    lastExport = "parse_err" /\ shared # Absent /\ shared.kind = "json"

\* C10: a run that starts unauthorized and has not observed Authorized is in
\* the QR steps or the wait loop, has not exported and has not ended; a
\* cancelled context does not take it out of the loop.
C10_WaitLoopUnbounded ==
    /\ []((initStatus = "unauth" /\ lastStatus # "auth") =>
             (pc \in {"qr_file", "qr_term"} \cup WaitLoop /\ exportCalls = 0))
    /\ [][(pc \in WaitLoop /\ cancelled) => (pc' \in WaitLoop /\ cancelled')]_vars

C10_Witness ==
    pc = "poll" /\ cancelled /\ lastStatus = "err"
        /\ polls = MaxPolls /\ sleeps = MaxPolls

====
